---- MODULE Spec2Model ----
(***************************************************************************)
(* The two report generators of the repository:                            *)
(*   generate-dashboard.py                        ("dashboard")            *)
(*   tools/visualization/visualize-benchmark-results.py   ("visualize")    *)
(* Each is the pipeline main -> load_data -> analyze_data -> renderer.     *)
(*                                                                         *)
(* Numbers: Python floats are modelled as exact rationals [num, den] in    *)
(* lowest terms.  Strings that the code parses (ExecutionTime) are         *)
(* sequences of one-character strings; every other string is atomic.       *)
(* A JSON object is a function from the keys it holds to their values.     *)
(***************************************************************************)
EXTENDS Integers, Sequences, FiniteSets, TLC

\* ------------------------------------------------------------- bounds
\* longest input array of the general specification
MaxLen == 2
\* longest input array of the mixed-input specification (SpecMixed)
MaxMixed == 5
\* the sample-table specification (SpecSamples): longest run of one repeated
\* record, and longest free part before or after it
MaxPad == 10
MaxTail == 2

\* ------------------------------------------------------------- numbers
Abs(n) == IF n < 0 THEN -n ELSE n

Min(a, b) == IF a < b THEN a ELSE b

RECURSIVE GCD(_, _)
GCD(a, b) == IF b = 0 THEN a ELSE GCD(b, a % b)

\* the rational n/d (d > 0) in lowest terms
Rat(n, d) == LET g == GCD(Abs(n), d) IN [num |-> n \div g, den |-> d \div g]

Zero == Rat(0, 1)

RatOfInt(n) == Rat(n, 1)

RatAdd(a, b) ==
  LET l == (a.den \div GCD(a.den, b.den)) * b.den
  IN  Rat(a.num * (l \div a.den) + b.num * (l \div b.den), l)

RatMulInt(a, k) == Rat(a.num * k, a.den)

RatDivInt(a, k) == Rat(a.num, a.den * k)

RatLeq(a, b) == a.num * b.den <= b.num * a.den

RatLt(a, b) == a.num * b.den < b.num * a.den

RECURSIVE SumInts(_)
SumInts(s) == IF s = << >> THEN 0 ELSE Head(s) + SumInts(Tail(s))

RECURSIVE SumRats(_)
SumRats(s) == IF s = << >> THEN Zero ELSE RatAdd(Head(s), SumRats(Tail(s)))

\* np.mean over a non-empty list of ints / of floats
MeanInts(s) == Rat(SumInts(s), Len(s))

MeanRats(s) == RatDivInt(SumRats(s), Len(s))

\* sum(list of bool): True counts 1, False counts 0
SumBools(s) == Cardinality({i \in 1..Len(s) : s[i]})

\* round(x * scale) for x >= 0, ties to even: a tie is a multiple of 1/4
\* resp. 1/8, which a float holds exactly, and Python's formatting rounds the
\* exact value half to even
RoundScaled(r, scale) ==
  LET n == (r.num % r.den) * scale
      q == (r.num \div r.den) * scale + n \div r.den
      twice == 2 * (n % r.den)
  IN  IF twice > r.den \/ (twice = r.den /\ q % 2 = 1) THEN q + 1 ELSE q

\* f"{x:.1f}" for x >= 0: the text "<whole>.<tenth>"
Fmt1(r) ==
  LET t == RoundScaled(r, 10)
  IN  [whole |-> t \div 10, tenth |-> t % 10]

\* f"{x:.2f}" for x >= 0: the text "<whole>.<hundredth>"
Fmt2(r) ==
  LET t == RoundScaled(r, 100)
  IN  [whole |-> t \div 100, hundredth |-> t % 100]

\* ------------------------------------------------------------- strings
Digits == {"0", "1", "2", "3", "4", "5", "6", "7", "8", "9"}

DigitVal(c) ==
  CASE c = "0" -> 0 [] c = "1" -> 1 [] c = "2" -> 2 [] c = "3" -> 3
    [] c = "4" -> 4 [] c = "5" -> 5 [] c = "6" -> 6 [] c = "7" -> 7
    [] c = "8" -> 8 [] c = "9" -> 9

TicksSuffix == <<" ", "T", "i", "c", "k", "s">>

\* str.replace(' Ticks', ''): every occurrence, left to right
RECURSIVE ReplaceTicks(_)
ReplaceTicks(s) ==
  IF Len(s) < Len(TicksSuffix) THEN s
  ELSE IF SubSeq(s, 1, Len(TicksSuffix)) = TicksSuffix
       THEN ReplaceTicks(SubSeq(s, Len(TicksSuffix) + 1, Len(s)))
       ELSE <<Head(s)>> \o ReplaceTicks(Tail(s))

\* s.split(c) for a one-character separator c
RECURSIVE Split(_, _)
Split(s, c) ==
  IF \A i \in 1..Len(s) : s[i] # c THEN <<s>>
  ELSE LET k == CHOOSE i \in 1..Len(s) :
                  s[i] = c /\ \A j \in 1..(i - 1) : s[j] # c
       IN  <<SubSeq(s, 1, k - 1)>> \o Split(SubSeq(s, k + 1, Len(s)), c)

\* int() and float() strip surrounding whitespace
RECURSIVE Strip(_)
Strip(s) ==
  IF s = << >> THEN s
  ELSE IF Head(s) = " " THEN Strip(Tail(s))
  ELSE IF s[Len(s)] = " " THEN Strip(SubSeq(s, 1, Len(s) - 1))
  ELSE s

AllDigits(s) == \A i \in 1..Len(s) : s[i] \in Digits

Unsigned(s) == IF s # << >> /\ Head(s) \in {"+", "-"} THEN Tail(s) ELSE s

Sign(s) == IF s # << >> /\ Head(s) = "-" THEN -1 ELSE 1

RECURSIVE DigitsVal(_)
DigitsVal(s) ==
  IF s = << >> THEN 0 ELSE 10 * DigitsVal(SubSeq(s, 1, Len(s) - 1)) + DigitVal(s[Len(s)])

RECURSIVE Pow10(_)
Pow10(k) == IF k = 0 THEN 1 ELSE 10 * Pow10(k - 1)

\* int(s) succeeds: optional sign, then one or more decimal digits
IsInt(s) == LET u == Unsigned(Strip(s)) IN u # << >> /\ AllDigits(u)

IntVal(s) == Sign(Strip(s)) * DigitsVal(Unsigned(Strip(s)))

\* float(s) succeeds: optional sign, digits with at most one '.', at least
\* one digit (exponents, inf and nan are outside the modelled alphabet)
IsFloat(s) ==
  LET u == Unsigned(Strip(s))
      p == Split(u, ".")
  IN  /\ Len(p) \in {1, 2}
      /\ \A i \in 1..Len(p) : AllDigits(p[i])
      /\ \E i \in 1..Len(p) : p[i] # << >>

FloatVal(s) ==
  LET u == Unsigned(Strip(s))
      p == Split(u, ".")
      frac == IF Len(p) = 2 THEN p[2] ELSE << >>
  IN  Rat(Sign(Strip(s)) * (DigitsVal(p[1]) * Pow10(Len(frac)) + DigitsVal(frac)),
          Pow10(Len(frac)))

\* ------------------------------------------------------------- JSON input
\* the five-category enumeration, in the order every view lists it
FreqOrder == <<"immediate", "continuous", "analysis", "optimization", "evolution">>

\* dict.get(key, default)
Get(item, key, default) == IF key \in DOMAIN item THEN item[key] ELSE default

\* one key of a JSON object: absent when S is empty, else bound to S's element
Field(key, S) == [k \in (IF S = {} THEN {} ELSE {key}) |-> CHOOSE v \in S : TRUE]

Opt(S) == {{}} \cup {{v} : v \in S}

Item(f, g, c, e, ts, w, t) ==
  Field("RecommendedFrequency", f) @@ Field("Goal", g) @@ Field("Context", c)
    @@ Field("EconomicValue", e) @@ Field("Timestamp", ts)
    @@ Field("WasSuccessful", w) @@ Field("ExecutionTime", t)

\* ExecutionTime strings: "100000 Ticks", "25000 Ticks", "0:00:01.5", "1:02:03",
\* "abc" and "a:b:c"
ExecTicks == <<"1", "0", "0", "0", "0", "0", " ", "T", "i", "c", "k", "s">>

ExecFewTicks == <<"2", "5", "0", "0", "0", " ", "T", "i", "c", "k", "s">>

ExecTimeSpan == <<"0", ":", "0", "0", ":", "0", "1", ".", "5">>

ExecLongSpan == <<"1", ":", "0", "2", ":", "0", "3">>

ExecWord == <<"a", "b", "c">>

ExecWords3 == <<"a", ":", "b", ":", "c">>

\* records that vary frequency, economic value and success flag
AggItems ==
  { Item(f, {"g1"}, {}, e, {}, w, {}) :
      f \in Opt({"immediate", "evolution", "weekly"}), e \in Opt({80}),
      w \in Opt(BOOLEAN) }

\* records that vary frequency and execution time
TimeItems ==
  { Item(f, {"g2"}, {"ctx"}, {40}, {"t0"}, {}, {t}) :
      f \in Opt({"immediate", "evolution"}),
      t \in {ExecTicks, ExecTimeSpan, ExecWord, ExecWords3} }
  \cup
  { Item({"immediate"}, {"g2"}, {}, {}, {}, {}, {t}) : t \in {ExecFewTicks, ExecLongSpan} }

\* a record with a frequency and no Goal
NoGoalItems == { Item({"continuous"}, {}, {}, {60}, {}, {FALSE}, {}) }

Items == AggItems \cup TimeItems \cup NoGoalItems

\* records of the mixed-input scenario: two labels, explicit success flags
MixedItems ==
  { Item({f}, {"g1"}, {}, {}, {}, {w}, {}) :
      f \in {"immediate", "evolution"}, w \in BOOLEAN }
  \cup { Item({}, {"g3"}, {}, {90}, {}, {FALSE}, {}) }

\* records of the sample-table scenario: two kept records that differ in
\* every shown field, and one without a frequency
SampleA == Item({"immediate"}, {"g1"}, {"c1"}, {80}, {"t1"}, {TRUE}, {})

SampleB == Item({"evolution"}, {"g2"}, {}, {}, {}, {FALSE}, {})

SampleN == Item({}, {"g3"}, {"c3"}, {90}, {}, {}, {})

RECURSIVE SeqsUpTo(_, _)
SeqsUpTo(S, n) ==
  IF n = 0 THEN {<< >>}
  ELSE LET shorter == SeqsUpTo(S, n - 1)
       IN  shorter \cup {Append(s, x) : s \in {t \in shorter : Len(t) = n - 1}, x \in S}

\* what the input path can hold
Files(items, n) ==
  {[state |-> st, json |-> << >>] : st \in {"missing", "unreadable", "invalid"}}
    \cup {[state |-> "json", json |-> a] : a \in SeqsUpTo(items, n)}

\* n copies of x
Repeat(x, n) == [i \in 1..n |-> x]

\* arrays long enough to overflow the sample table: a run of one kept
\* record, then any short sequence of the three sample records
SampleFiles ==
  {[state |-> st, json |-> << >>] : st \in {"missing", "unreadable", "invalid"}}
    \cup {[state |-> "json", json |-> Repeat(SampleA, n) \o tail] :
            n \in 0..MaxPad, tail \in SeqsUpTo({SampleA, SampleB, SampleN}, MaxTail)}
    \cup {[state |-> "json", json |-> tail \o Repeat(SampleB, n)] :
            n \in 0..MaxPad, tail \in SeqsUpTo({SampleA, SampleB, SampleN}, MaxTail)}

\* ------------------------------------------------------------- state
VARIABLES
  script,     \* "dashboard" or "visualize": which script runs
  argc,       \* len(sys.argv), main's argument check
  file,       \* the input path's content, as load_data finds it
  pc,         \* position in main
  data,       \* main's `data`: load_data's return value
  idx,        \* records the loop `for item in data` has consumed
  results,    \* analyze_data's `results` dict
  report,     \* what the renderer has computed, by artifact
  fs,         \* output artifacts on disk: the HTML file, the directory, its images
  printed,    \* messages printed so far
  status,     \* exit status, meaningful once pc = "exit"
  exc         \* the uncaught exception that ended the run, or "none"

vars == <<script, argc, file, pc, data, idx, results, report, fs, printed, status, exc>>

None == [tag |-> "None", items |-> << >>]

List(a) == [tag |-> "list", items |-> a]

\* a main that never tests what load_data returned
TruthyUnchecked(d) == d.tag \in {"None", "list"}

\* Python truthiness of load_data's return value: None and [] are falsy
Truthy(d) == d.tag = "list" /\ d.items # << >>

\* nothing rendered yet: the empty map from artifact name to content
NoReport == << >>

NoFiles == [html |-> FALSE, dir |-> FALSE, images |-> {}]

dash_new_results ==
  [sk_frequencies |-> << >>, sk_economic_values |-> << >>, sk_processing_times |-> << >>,
   goals |-> << >>, contexts |-> << >>, timestamps |-> << >>, successful |-> << >>]

viz_new_results ==
  [sk_frequencies |-> << >>, sk_economic_values |-> << >>, sk_processing_times |-> << >>]

InitWith(files) ==
  /\ script \in {"dashboard", "visualize"}
  /\ argc \in {1, 2}
  /\ file \in files
  /\ pc = "main"
  /\ data = None
  /\ idx = 0
  /\ results = IF script = "dashboard" THEN dash_new_results ELSE viz_new_results
  /\ report = NoReport
  /\ fs = NoFiles
  /\ printed = << >>
  /\ status = 0
  /\ exc = "none"

Init == InitWith(Files(Items, MaxLen))

InitMixed == InitWith(Files(MixedItems, MaxMixed))

InitSamples == InitWith(SampleFiles)

\* ------------------------------------------------------------- analyze_data
Raise(e) == [exc |-> e, ms |-> Zero]

Parsed(r) == [exc |-> "none", ms |-> r]

\* ticks / 10000
TicksToMs(ticks) == Rat(ticks, 10000)

\* (int(hours) * 3600 + int(minutes) * 60 + seconds) * 1000
TimeSpanToMs(hours, minutes, seconds) ==
  RatMulInt(RatAdd(RatOfInt(hours * 3600 + minutes * 60), seconds), 1000)

\* dashboard, the body of `if 'ExecutionTime' in item`: the value appended to
\* sk_processing_times, or the exception that leaves the except-branch
dash_execution_ms(text) ==
  IF IsInt(ReplaceTicks(text)) THEN Parsed(TicksToMs(IntVal(ReplaceTicks(text))))
  ELSE LET time_parts == Split(text, ":")
       IN  IF Len(time_parts) = 3
           THEN IF ~IsFloat(time_parts[3]) THEN Raise("ValueError")
                ELSE IF ~IsInt(time_parts[1]) \/ ~IsInt(time_parts[2])
                     THEN Raise("ValueError")
                     ELSE Parsed(TimeSpanToMs(IntVal(time_parts[1]), IntVal(time_parts[2]),
                                              FloatVal(time_parts[3])))
           ELSE Parsed(Zero)

\* visualize: int(...) is not guarded
viz_execution_ms(text) ==
  IF IsInt(ReplaceTicks(text)) THEN Parsed(TicksToMs(IntVal(ReplaceTicks(text))))
  ELSE Raise("ValueError")

Kept(item) == "RecommendedFrequency" \in DOMAIN item

\* the appends with the context stored where the goal belongs
dash_store_goal_slip(res, item) ==
  [res EXCEPT !.sk_frequencies = Append(@, item["RecommendedFrequency"]),
              !.sk_economic_values = Append(@, Get(item, "EconomicValue", 0)),
              !.goals = Append(@, Get(item, "Context", "")),
              !.contexts = Append(@, Get(item, "Context", "")),
              !.timestamps = Append(@, Get(item, "Timestamp", "")),
              !.successful = Append(@, Get(item, "WasSuccessful", TRUE))]

\* the appends with the context appended only when the record has one
dash_store_context_if_present(res, item) ==
  [res EXCEPT !.sk_frequencies = Append(@, item["RecommendedFrequency"]),
              !.sk_economic_values = Append(@, Get(item, "EconomicValue", 0)),
              !.goals = Append(@, Get(item, "Goal", "")),
              !.contexts = IF "Context" \in DOMAIN item THEN Append(@, item["Context"]) ELSE @,
              !.timestamps = Append(@, Get(item, "Timestamp", "")),
              !.successful = Append(@, Get(item, "WasSuccessful", TRUE))]

\* dashboard: the six appends of a kept record
dash_store(res, item) ==
  [res EXCEPT !.sk_frequencies = Append(@, item["RecommendedFrequency"]),
              !.sk_economic_values = Append(@, Get(item, "EconomicValue", 0)),
              !.goals = Append(@, Get(item, "Goal", "")),
              !.contexts = Append(@, Get(item, "Context", "")),
              !.timestamps = Append(@, Get(item, "Timestamp", "")),
              !.successful = Append(@, Get(item, "WasSuccessful", TRUE))]

\* one iteration of the dashboard's loop: the results dict afterwards and
\* the exception the iteration raised, if any
dash_analyze_item(res, item) ==
  IF ~Kept(item) THEN [results |-> res, exc |-> "none"]
  ELSE LET stored == dash_store(res, item)
       IN  IF "ExecutionTime" \notin DOMAIN item THEN [results |-> stored, exc |-> "none"]
           ELSE LET t == dash_execution_ms(item["ExecutionTime"])
                IN  IF t.exc # "none" THEN [results |-> stored, exc |-> t.exc]
                    ELSE [results |->
                            [stored EXCEPT !.sk_processing_times = Append(@, t.ms)],
                          exc |-> "none"]

viz_store(res, item) ==
  [res EXCEPT !.sk_frequencies = Append(@, item["RecommendedFrequency"]),
              !.sk_economic_values = Append(@, Get(item, "EconomicValue", 0))]

\* one iteration of the visualization script's loop; item['Goal'] raises
\* KeyError before anything is stored
viz_analyze_item(res, item) ==
  IF ~Kept(item) THEN [results |-> res, exc |-> "none"]
  ELSE IF "Goal" \notin DOMAIN item THEN [results |-> res, exc |-> "KeyError"]
  ELSE LET stored == viz_store(res, item)
       IN  IF "ExecutionTime" \notin DOMAIN item THEN [results |-> stored, exc |-> "none"]
           ELSE LET t == viz_execution_ms(item["ExecutionTime"])
                IN  IF t.exc # "none" THEN [results |-> stored, exc |-> t.exc]
                    ELSE [results |->
                            [stored EXCEPT !.sk_processing_times = Append(@, t.ms)],
                          exc |-> "none"]

\* a loop that gives a record without the key a default label instead of
\* skipping it
analyze_item_default_label(s, res, item) ==
  LET it == IF Kept(item) THEN item ELSE item @@ ("RecommendedFrequency" :> "immediate")
  IN  IF s = "dashboard" THEN dash_analyze_item(res, it) ELSE viz_analyze_item(res, it)

analyze_item(s, res, item) ==
  IF s = "dashboard" THEN dash_analyze_item(res, item) ELSE viz_analyze_item(res, item)

\* ------------------------------------------------------------- main, load_data
\* sys.exit(1) after a printed message
Exit1(msgs) ==
  /\ pc' = "exit"
  /\ status' = 1
  /\ printed' = printed \o msgs

\* the argument check of a main that prepares its output first: the HTML
\* file opened, or the output directory created, before anything is loaded
CheckArgsOutputFirst ==
  /\ pc = "main"
  /\ fs' = IF script = "dashboard" THEN [fs EXCEPT !.html = TRUE] ELSE [fs EXCEPT !.dir = TRUE]
  /\ IF argc < 2
     THEN Exit1(<<"usage">>)
     ELSE pc' = "load" /\ UNCHANGED <<status, printed>>
  /\ UNCHANGED <<script, argc, file, data, idx, results, report, exc>>

\* main: the argument check
CheckArgs ==
  /\ pc = "main"
  /\ IF argc < 2
     THEN Exit1(<<"usage">>)
     ELSE pc' = "load" /\ UNCHANGED <<status, printed>>
  /\ UNCHANGED <<script, argc, file, data, idx, results, report, fs, exc>>

\* load_data: open + json.load inside try; any exception prints and gives None
load_data(f) == IF f.state = "json" THEN List(f.json) ELSE None

\* main: data = load_data(input_file); if not data: print, sys.exit(1)
LoadData ==
  /\ pc = "load"
  /\ data' = load_data(file)
  /\ IF ~Truthy(load_data(file))
     THEN Exit1((IF load_data(file) = None THEN <<"error_loading">> ELSE << >>)
                  \o <<"could_not_load">>)
     ELSE pc' = "analyze" /\ UNCHANGED <<status, printed>>
  /\ UNCHANGED <<script, argc, file, idx, results, report, fs, exc>>

\* analyze_data: one iteration of `for item in data`
AnalyzeItem ==
  /\ pc = "analyze"
  /\ idx < Len(data.items)
  /\ LET r == analyze_item(script, results, data.items[idx + 1])
     IN  /\ results' = r.results
         /\ exc' = r.exc
         /\ idx' = idx + 1
         /\ IF r.exc = "none"
            THEN UNCHANGED <<pc, status, printed>>
            ELSE /\ pc' = "exit"
                 /\ status' = 1
                 /\ printed' = Append(printed, "traceback")
  /\ UNCHANGED <<script, argc, file, data, report, fs>>

\* analyze_data: return results
AnalyzeReturn ==
  /\ pc = "analyze"
  /\ idx = Len(data.items)
  /\ pc' = "render"
  /\ UNCHANGED <<script, argc, file, data, idx, results, report, fs, printed, status, exc>>

\* ------------------------------------------------------------- aggregation
\* Counter(seq).get(x, 0)
Count(seq, x) == Cardinality({i \in 1..Len(seq) : seq[i] = x})

\* defaultdict(list) filled from zip(keys, vals), read at key k: zip stops at
\* the shorter sequence
RECURSIVE Grouped(_, _, _)
Grouped(keys, vals, k) ==
  IF keys = << >> \/ vals = << >> THEN << >>
  ELSE (IF Head(keys) = k THEN <<Head(vals)>> ELSE << >>)
         \o Grouped(Tail(keys), Tail(vals), k)

Categories == 1..Len(FreqOrder)

\* [sk_freq_count.get(freq, 0) for freq in frequencies]
sk_counts(res) == [i \in Categories |-> Count(res.sk_frequencies, FreqOrder[i])]

\* the share as a fraction, the factor 100 forgotten
PercentageAsFraction(count, total) == Rat(count, total)

\* count / total * 100
Percentage(count, total) == Rat(count * 100, total)

\* a mean taken over the non-zero values only
avg_values_nonzero(res) ==
  [i \in Categories |->
     LET values == SelectSeq(Grouped(res.sk_frequencies, res.sk_economic_values,
                                     FreqOrder[i]), LAMBDA v : v # 0)
     IN  IF values # << >> THEN MeanInts(values) ELSE Zero]

\* per-frequency mean economic value, 0 for a frequency without values
avg_values(res) ==
  [i \in Categories |->
     LET values == Grouped(res.sk_frequencies, res.sk_economic_values, FreqOrder[i])
     IN  IF values # << >> THEN MeanInts(values) ELSE Zero]

\* per-frequency mean processing time, 0 for a frequency without times
avg_times(res) ==
  [i \in Categories |->
     LET times == Grouped(res.sk_frequencies, res.sk_processing_times, FreqOrder[i])
     IN  IF times # << >> THEN MeanRats(times) ELSE Zero]

\* a rate taken over all records instead of the frequency's own
success_rates_of_all(res) ==
  [i \in Categories |->
     LET successes == Grouped(res.sk_frequencies, res.successful, FreqOrder[i])
     IN  IF successes # << >>
         THEN Rat(SumBools(successes) * 100, Len(res.successful))
         ELSE Zero]

\* sum(successes) / len(successes) * 100, 0 for a frequency without records
success_rates(res) ==
  [i \in Categories |->
     LET successes == Grouped(res.sk_frequencies, res.successful, FreqOrder[i])
     IN  IF successes # << >>
         THEN Rat(SumBools(successes) * 100, Len(successes))
         ELSE Zero]

\* the value labels a chart annotates: only bars with v > 0
ValueLabels(values) ==
  [i \in {j \in DOMAIN values : RatLt(Zero, values[j])} |-> Fmt1(values[i])]

\* ------------------------------------------------------------- dashboard
create_frequency_chart(res) ==
  LET counts == sk_counts(res)
      total == SumInts(counts)
      shown == {j \in Categories : counts[j] > 0}
  IN  [frequencies |-> FreqOrder,
       sk_counts |-> counts,
       count_labels |-> [i \in shown |-> counts[i]],
       percentage_labels |-> [i \in shown |-> Fmt1(Percentage(counts[i], total))]]

create_economic_chart(res) ==
  [frequencies |-> FreqOrder, avg_values |-> avg_values(res),
   labels |-> ValueLabels(avg_values(res))]

create_processing_time_chart(res) ==
  IF res.sk_processing_times = << >> THEN [kind |-> "None"]
  ELSE [kind |-> "chart", frequencies |-> FreqOrder, avg_times |-> avg_times(res),
        labels |-> ValueLabels(avg_times(res))]

create_success_rate_chart(res) ==
  [frequencies |-> FreqOrder, success_rates |-> success_rates(res),
   labels |-> ValueLabels(success_rates(res))]

\* the rows shown in the sample-decisions table
MaxSamples == 10

\* generate_html_dashboard up to html_content: the interpolated values
generate_html_dashboard(res) ==
  LET total_decisions == Len(res.sk_frequencies)
      avg_economic_value ==
        IF res.sk_economic_values # << >> THEN MeanInts(res.sk_economic_values) ELSE Zero
      avg_processing_time ==
        IF res.sk_processing_times # << >> THEN MeanRats(res.sk_processing_times) ELSE Zero
      success_rate ==
        IF res.successful # << >>
        THEN Rat(SumBools(res.successful) * 100, Len(res.successful))
        ELSE Zero
      max_samples == Min(MaxSamples, Len(res.goals))
  IN  [frequency_chart |-> create_frequency_chart(res),
       economic_chart |-> create_economic_chart(res),
       processing_time_chart |-> create_processing_time_chart(res),
       success_chart |-> create_success_rate_chart(res),
       total_decisions |-> total_decisions,
       avg_economic_value |-> Fmt1(avg_economic_value),
       avg_processing_time |-> Fmt1(avg_processing_time),
       success_rate |-> Fmt1(success_rate),
       freq_metrics |->
         [i \in Categories |->
            LET count == Count(res.sk_frequencies, FreqOrder[i])
                percentage ==
                  IF total_decisions > 0 THEN Percentage(count, total_decisions) ELSE Zero
            IN  [name |-> FreqOrder[i], count |-> count,
                 percentage |-> Fmt1(percentage), width |-> percentage]],
       sample_decisions |->
         [i \in 1..max_samples |->
            [goal |-> res.goals[i],
             context |-> IF i <= Len(res.contexts) THEN res.contexts[i] ELSE "",
             frequency |-> res.sk_frequencies[i],
             economic_value |-> res.sk_economic_values[i],
             success |-> IF res.successful[i] THEN "check" ELSE "cross"]]]

\* generate_html_dashboard: the charts, the metrics and the page text
RenderDashboard ==
  /\ pc = "render"
  /\ script = "dashboard"
  /\ report' = report @@ ("html" :> generate_html_dashboard(results))
  /\ pc' = "write"
  /\ UNCHANGED <<script, argc, file, data, idx, results, fs, printed, status, exc>>

\* generate_html_dashboard: open(output_file, 'w'), write, print; main returns
WriteDashboard ==
  /\ pc = "write"
  /\ fs' = [fs EXCEPT !.html = TRUE]
  /\ printed' = Append(printed, "dashboard_generated")
  /\ pc' = "exit"
  /\ status' = 0
  /\ UNCHANGED <<script, argc, file, data, idx, results, report, exc>>

\* ------------------------------------------------------------- visualize
create_frequency_distribution(res) ==
  LET counts == sk_counts(res)
      total_sk == SumInts(counts)
  IN  [frequencies |-> FreqOrder,
       sk_counts |-> counts,
       count_labels |-> counts,
       percentage_labels |->
         [i \in {j \in Categories : counts[j] > 0} |-> Fmt1(Percentage(counts[i], total_sk))]]

\* the box plot: only frequencies that have data; `none` when there are none
create_economic_value_distribution(res) ==
  LET values(i) == Grouped(res.sk_frequencies, res.sk_economic_values, FreqOrder[i])
      valid == SelectSeq([i \in Categories |-> i], LAMBDA i : values(i) # << >>)
  IN  [valid_freqs |-> [k \in DOMAIN valid |-> FreqOrder[valid[k]]],
       valid_data |-> [k \in DOMAIN valid |-> values(valid[k])],
       means |-> [k \in DOMAIN valid |-> Fmt1(MeanInts(values(valid[k])))]]

create_processing_time_visualization(res) ==
  [frequencies |-> FreqOrder, avg_times |-> avg_times(res),
   labels |-> ValueLabels(avg_times(res))]

\* the lines of summary_text
create_summary_visualization(res) ==
  LET total_decisions == Len(res.sk_frequencies)
      avg_economic_value ==
        IF res.sk_economic_values # << >> THEN MeanInts(res.sk_economic_values) ELSE Zero
      avg_processing_time ==
        IF res.sk_processing_times # << >> THEN MeanRats(res.sk_processing_times) ELSE Zero
      values(i) == Grouped(res.sk_frequencies, res.sk_economic_values, FreqOrder[i])
      valued == SelectSeq([i \in Categories |-> i], LAMBDA i : values(i) # << >>)
  IN  [total_decisions |-> total_decisions,
       avg_economic_value |-> Fmt2(avg_economic_value),
       avg_processing_time |-> Fmt2(avg_processing_time),
       frequency_distribution |->
         [i \in Categories |->
            LET count == Count(res.sk_frequencies, FreqOrder[i])
            IN  [name |-> FreqOrder[i], count |-> count,
                 percentage |->
                   Fmt1(IF total_decisions > 0 THEN Percentage(count, total_decisions)
                        ELSE Zero)]],
       economic_value_by_frequency |->
         [k \in DOMAIN valued |->
            [name |-> FreqOrder[valued[k]], avg |-> Fmt2(MeanInts(values(valued[k])))]]]

\* plt.savefig(os.path.join(output_dir, name))
SaveFig(name, content) ==
  /\ fs' = [fs EXCEPT !.images = @ \cup {name}]
  /\ report' = report @@ (name :> content)

\* create_visualizations: os.makedirs(output_dir, exist_ok=True)
MakeDirs ==
  /\ pc = "render"
  /\ script = "visualize"
  /\ fs' = [fs EXCEPT !.dir = TRUE]
  /\ pc' = "frequency"
  /\ UNCHANGED <<script, argc, file, data, idx, results, report, printed, status, exc>>

FrequencyDistribution ==
  /\ pc = "frequency"
  /\ SaveFig("frequency_distribution.png", create_frequency_distribution(results))
  /\ pc' = "economic"
  /\ UNCHANGED <<script, argc, file, data, idx, results, printed, status, exc>>

EconomicValueDistribution ==
  /\ pc = "economic"
  /\ IF create_economic_value_distribution(results).valid_data = << >>
     THEN /\ printed' = Append(printed, "no_economic_value_data")
          /\ UNCHANGED <<fs, report>>
     ELSE /\ SaveFig("economic_value_distribution.png",
                     create_economic_value_distribution(results))
          /\ UNCHANGED printed
  /\ pc' = "processing"
  /\ UNCHANGED <<script, argc, file, data, idx, results, status, exc>>

\* the chart drawn without the test for processing-time data
ProcessingTimeVisualizationAlways ==
  /\ pc = "processing"
  /\ SaveFig("processing_time.png", create_processing_time_visualization(results))
  /\ pc' = "summary"
  /\ UNCHANGED <<script, argc, file, data, idx, results, printed, status, exc>>

\* if results['sk_processing_times']: create_processing_time_visualization
ProcessingTimeVisualization ==
  /\ pc = "processing"
  /\ IF results.sk_processing_times # << >>
     THEN SaveFig("processing_time.png", create_processing_time_visualization(results))
     ELSE UNCHANGED <<fs, report>>
  /\ pc' = "summary"
  /\ UNCHANGED <<script, argc, file, data, idx, results, printed, status, exc>>

\* create_summary_visualization, the final print; main returns
SummaryVisualization ==
  /\ pc = "summary"
  /\ SaveFig("summary.png", create_summary_visualization(results))
  /\ printed' = Append(printed, "visualizations_saved")
  /\ pc' = "exit"
  /\ status' = 0
  /\ UNCHANGED <<script, argc, file, data, idx, results, exc>>

\* ------------------------------------------------------------- specification
Next ==
  \/ CheckArgs
  \/ LoadData
  \/ AnalyzeItem
  \/ AnalyzeReturn
  \/ RenderDashboard
  \/ WriteDashboard
  \/ MakeDirs
  \/ FrequencyDistribution
  \/ EconomicValueDistribution
  \/ ProcessingTimeVisualization
  \/ SummaryVisualization

Spec == Init /\ [][Next]_vars

SpecMixed == InitMixed /\ [][Next]_vars

SpecSamples == InitSamples /\ [][Next]_vars

\* ------------------------------------------------------------- properties
\* The input as the claims speak of it: the decoded array, the records the
\* loop has consumed, and the records that carry a frequency.
Input == file.json

Consumed == SubSeq(data.items, 1, idx)

HasFrequency(item) == "RecommendedFrequency" \in DOMAIN item

Qualifying(records) == SelectSeq(records, HasFrequency)

WithLabel(records, label) ==
  SelectSeq(records, LAMBDA r : HasFrequency(r) /\ r["RecommendedFrequency"] = label)

HtmlDone == "html" \in DOMAIN report

SummaryDone == "summary.png" \in DOMAIN report

Html == report["html"]

Summary == report["summary.png"]

\* C1: in both scripts, after analyze_data has consumed any prefix of the
\* input, a record without 'RecommendedFrequency' has contributed to no
\* result sequence: every sequence is no longer than the number of consumed
\* records that carry the key, the stored frequencies are those records'
\* frequencies in order, and the total and the per-frequency counts the
\* renderers report count only records that carry the key.
C1_NoFrequencyNoContribution ==
  LET kept == Qualifying(Consumed)
      timed == SelectSeq(kept, LAMBDA r : "ExecutionTime" \in DOMAIN r)
  IN  /\ \A k \in DOMAIN results : Len(results[k]) <= Len(kept)
      /\ Len(results.sk_processing_times) <= Len(timed)
      /\ \A i \in 1..Len(results.sk_frequencies) :
           results.sk_frequencies[i] = kept[i]["RecommendedFrequency"]
      /\ HtmlDone =>
           /\ Html.total_decisions = Len(Qualifying(Input))
           /\ \A c \in Categories :
                /\ Html.freq_metrics[c].count = Len(WithLabel(Input, FreqOrder[c]))
                /\ Html.frequency_chart.sk_counts[c] = Len(WithLabel(Input, FreqOrder[c]))
      /\ SummaryDone =>
           /\ Summary.total_decisions = Len(Qualifying(Input))
           /\ \A c \in Categories :
                Summary.frequency_distribution[c].count = Len(WithLabel(Input, FreqOrder[c]))

\* a finished run whose input mixes a record without the key (but with an
\* execution time and an economic value) with a record that has it
C1_Witness ==
  /\ pc = "exit" /\ status = 0
  /\ \E i, j \in 1..Len(Input) :
       /\ ~HasFrequency(Input[i])
       /\ {"ExecutionTime", "EconomicValue"} \subseteq DOMAIN Input[i]
       /\ HasFrequency(Input[j])

\* C2: the counts reported for the five fixed categories sum to the reported
\* total decisions, whatever strings the kept records carry as frequency.
C2_CountsSumToTotal ==
  /\ HtmlDone =>
       /\ SumInts([c \in Categories |-> Html.freq_metrics[c].count]) = Html.total_decisions
       /\ SumInts(Html.frequency_chart.sk_counts) = Html.total_decisions
  /\ SummaryDone =>
       SumInts([c \in Categories |-> Summary.frequency_distribution[c].count])
         = Summary.total_decisions

\* C3: a run whose input file parses to the empty array ends with status 0
\* and its artifact written.
C3_EmptyArrayRenders ==
  (pc = "exit" /\ argc >= 2 /\ file.state = "json" /\ file.json = << >>) =>
    /\ status = 0
    /\ IF script = "dashboard" THEN fs.html ELSE fs.dir /\ "summary.png" \in fs.images

\* the two accepted ExecutionTime formats, as the claims word them
MatchesTicks(text) ==
  /\ Len(text) > Len(TicksSuffix)
  /\ SubSeq(text, Len(text) - Len(TicksSuffix) + 1, Len(text)) = TicksSuffix
  /\ AllDigits(SubSeq(text, 1, Len(text) - Len(TicksSuffix)))

MatchesTimeSpan(text) ==
  LET parts == Split(text, ":")
  IN  /\ Len(parts) = 3
      /\ \A i \in 1..2 : parts[i] # << >> /\ AllDigits(parts[i])
      /\ LET sec == Split(parts[3], ".")
         IN  /\ Len(sec) \in {1, 2}
             /\ \A i \in 1..Len(sec) : sec[i] # << >> /\ AllDigits(sec[i])

Malformed(item) ==
  /\ HasFrequency(item)
  /\ "ExecutionTime" \in DOMAIN item
  /\ ~MatchesTicks(item["ExecutionTime"])
  /\ ~MatchesTimeSpan(item["ExecutionTime"])

WellTimed(item) ==
  /\ HasFrequency(item)
  /\ "ExecutionTime" \in DOMAIN item
  /\ MatchesTicks(item["ExecutionTime"]) \/ MatchesTimeSpan(item["ExecutionTime"])

\* C4: a record whose ExecutionTime matches neither format does not end
\* analyze_data with an exception and adds nothing to sk_processing_times:
\* only records with a well-formed time are recorded.
C4_MalformedTimeDropped ==
  /\ (idx > 0 /\ Malformed(data.items[idx])) => exc = "none"
  /\ Len(results.sk_processing_times)
       <= Len(SelectSeq(Consumed, WellTimed))

\* C5: when the input path is missing, unreadable or not valid JSON, main
\* never gets past loading, writes nothing, and ends with the error messages
\* printed, exit status 1 and no uncaught exception.
C5_LoadFailureExitsOne ==
  (argc >= 2 /\ file.state \in {"missing", "unreadable", "invalid"}) =>
    /\ pc \in {"main", "load", "exit"}
    /\ exc = "none"
    /\ fs = NoFiles
    /\ pc = "exit" => status = 1 /\ printed = <<"error_loading", "could_not_load">>

C5_Witness ==
  /\ pc = "exit" /\ status = 1 /\ argc >= 2
  /\ file.state = "invalid"
  /\ "could_not_load" \in {printed[i] : i \in 1..Len(printed)}

Last(seq) == seq[Len(seq)]

\* the milliseconds the claims prescribe for a well-formed ExecutionTime
ExpectedMs(text) ==
  IF MatchesTicks(text)
  THEN Rat(DigitsVal(SubSeq(text, 1, Len(text) - Len(TicksSuffix))), 10000)
  ELSE LET parts == Split(text, ":")
           sec == Split(parts[3], ".")
           frac == IF Len(sec) = 2 THEN sec[2] ELSE << >>
           scale == Pow10(Len(frac))
       IN  Rat(((DigitsVal(parts[1]) * 3600 + DigitsVal(parts[2]) * 60) * scale
                  + DigitsVal(sec[1]) * scale + DigitsVal(frac)) * 1000,
               scale)

RecordedAsExpected(item) ==
  /\ exc = "none"
  /\ results.sk_processing_times # << >>
  /\ Last(results.sk_processing_times) = ExpectedMs(item["ExecutionTime"])
  /\ item["ExecutionTime"] = ExecTicks => Last(results.sk_processing_times) = Rat(10, 1)
  /\ item["ExecutionTime"] = ExecTimeSpan => Last(results.sk_processing_times) = Rat(1500, 1)

\* C6: in both scripts, the record analyze_data consumed last, when its
\* ExecutionTime is '<n> Ticks' or 'H:M:S', is recorded as n/10000 ms, resp.
\* (H*3600 + M*60 + S)*1000 ms ('100000 Ticks' as 10, '0:00:01.5' as 1500).
C6_BothFormatsAccepted ==
  (idx > 0 /\ WellTimed(data.items[idx]) /\ exc # "KeyError") =>
    RecordedAsExpected(data.items[idx])

\* C6, the dashboard alone: both formats are recorded as prescribed.
C6_DashboardFormats ==
  (script = "dashboard" /\ idx > 0 /\ WellTimed(data.items[idx])) =>
    RecordedAsExpected(data.items[idx])

\* C6, the visualization script alone: the tick format is recorded as
\* prescribed.
C6_VisualizeTicks ==
  (script = "visualize" /\ idx > 0 /\ WellTimed(data.items[idx])
     /\ MatchesTicks(data.items[idx]["ExecutionTime"]) /\ exc # "KeyError") =>
    RecordedAsExpected(data.items[idx])

Names(rows) == [k \in DOMAIN rows |-> rows[k].name]

\* C7: every aggregated per-frequency view of either script (the dashboard's
\* breakdown and charts, the summary's 'Frequency Distribution' and 'Average
\* Economic Value by Frequency' sections) lists the five categories in the
\* fixed order, a category without records included.
C7_AllFiveCategoriesListed ==
  /\ HtmlDone =>
       /\ Names(Html.freq_metrics) = FreqOrder
       /\ Html.frequency_chart.frequencies = FreqOrder
       /\ DOMAIN Html.frequency_chart.sk_counts = Categories
       /\ Html.economic_chart.frequencies = FreqOrder
       /\ DOMAIN Html.economic_chart.avg_values = Categories
       /\ Html.success_chart.frequencies = FreqOrder
       /\ DOMAIN Html.success_chart.success_rates = Categories
  /\ SummaryDone =>
       /\ Names(Summary.frequency_distribution) = FreqOrder
       /\ Names(Summary.economic_value_by_frequency) = FreqOrder

\* C7, without the summary's 'Average Economic Value by Frequency' section,
\* which is built from the frequencies that have data.
C7_DashboardAndDistributionListed ==
  /\ HtmlDone =>
       /\ Names(Html.freq_metrics) = FreqOrder
       /\ Html.frequency_chart.frequencies = FreqOrder
       /\ DOMAIN Html.frequency_chart.sk_counts = Categories
       /\ Html.economic_chart.frequencies = FreqOrder
       /\ DOMAIN Html.economic_chart.avg_values = Categories
       /\ Html.success_chart.frequencies = FreqOrder
       /\ DOMAIN Html.success_chart.success_rates = Categories
  /\ SummaryDone => Names(Summary.frequency_distribution) = FreqOrder

Succeeded(record) == "WasSuccessful" \notin DOMAIN record \/ record["WasSuccessful"]

Hundred == Rat(100, 1)

\* C8: the success rate create_success_rate_chart computes for a category
\* is (its records with WasSuccessful true or missing) / (its records) * 100,
\* is 0 for a category without records, and lies in [0, 100].
C8_SuccessRatePerFrequency ==
  HtmlDone =>
    \A c \in Categories :
      LET records == WithLabel(Input, FreqOrder[c])
          rate == Html.success_chart.success_rates[c]
      IN  /\ rate = IF records = << >> THEN Zero
                    ELSE Rat(Len(SelectSeq(records, Succeeded)) * 100, Len(records))
          /\ RatLeq(Zero, rate)
          /\ RatLeq(rate, Hundred)

\* a dashboard with a category whose rate is strictly between 0 and 100 and
\* one of whose records has no WasSuccessful
C8_Witness ==
  /\ HtmlDone
  /\ \E c \in Categories :
       /\ RatLt(Zero, Html.success_chart.success_rates[c])
       /\ RatLt(Html.success_chart.success_rates[c], Hundred)
       /\ \E i \in 1..Len(Input) :
            /\ HasFrequency(Input[i])
            /\ Input[i]["RecommendedFrequency"] = FreqOrder[c]
            /\ "WasSuccessful" \notin DOMAIN Input[i]

FiveLabels == {FreqOrder[c] : c \in Categories}

\* 3 'immediate' records, 2 of them successful, 2 'evolution' records, both
\* successful, and no others
MixedExample ==
  /\ Len(Input) = 5
  /\ Len(WithLabel(Input, "immediate")) = 3
  /\ Len(SelectSeq(WithLabel(Input, "immediate"), Succeeded)) = 2
  /\ Len(WithLabel(Input, "evolution")) = 2
  /\ Len(SelectSeq(WithLabel(Input, "evolution"), Succeeded)) = 2

Text1(whole, tenth) == [whole |-> whole, tenth |-> tenth]

\* C9: when every qualifying record carries one of the five labels, each
\* category's count is the number of records with its label and its
\* percentage is count/total*100 (0 for an absent category); the mixed
\* example reports immediate=3 (60.0%), evolution=2 (40.0%), the others 0,
\* and success rates 66.7% and 100.0%.
C9_CountsAndPercentages ==
  (HtmlDone /\ \A i \in 1..Len(Input) :
                 HasFrequency(Input[i]) => Input[i]["RecommendedFrequency"] \in FiveLabels) =>
    LET total == Len(Qualifying(Input))
    IN  /\ \A c \in Categories :
             LET n == Len(WithLabel(Input, FreqOrder[c]))
                 share == IF total = 0 THEN Zero ELSE Rat(n * 100, total)
             IN  /\ Html.freq_metrics[c].count = n
                 /\ Html.freq_metrics[c].width = share
                 /\ Html.freq_metrics[c].percentage = Fmt1(share)
                 /\ Html.frequency_chart.sk_counts[c] = n
                 /\ n > 0 => Html.frequency_chart.percentage_labels[c] = Fmt1(share)
                 /\ n = 0 => Html.freq_metrics[c].percentage = Text1(0, 0)
        /\ MixedExample =>
             /\ [c \in Categories |-> Html.freq_metrics[c].count] = <<3, 0, 0, 0, 2>>
             /\ [c \in Categories |-> Html.freq_metrics[c].percentage]
                  = <<Text1(60, 0), Text1(0, 0), Text1(0, 0), Text1(0, 0), Text1(40, 0)>>
             /\ Html.frequency_chart.percentage_labels = (1 :> Text1(60, 0)) @@ (5 :> Text1(40, 0))
             /\ Html.success_chart.labels = (1 :> Text1(66, 7)) @@ (5 :> Text1(100, 0))

C9_Witness == HtmlDone /\ MixedExample

EconomicValueOf(record) ==
  IF "EconomicValue" \in DOMAIN record THEN record["EconomicValue"] ELSE 0

Timed(records) == SelectSeq(Qualifying(records), LAMBDA r : "ExecutionTime" \in DOMAIN r)

\* C10: a category without records reports average economic value 0, a kept
\* record without EconomicValue counts as 0 in its category's mean, and the
\* overall average economic value, average processing time and success rate
\* are 0 when no record feeds them.
C10_EmptyAveragesAreZero ==
  /\ HtmlDone =>
       /\ \A c \in Categories :
            LET records == WithLabel(Input, FreqOrder[c])
            IN  Html.economic_chart.avg_values[c] =
                  IF records = << >> THEN Zero
                  ELSE Rat(SumInts([i \in DOMAIN records |-> EconomicValueOf(records[i])]),
                           Len(records))
       /\ Qualifying(Input) = << >> =>
            /\ Html.avg_economic_value = Text1(0, 0)
            /\ Html.success_rate = Text1(0, 0)
       /\ Timed(Input) = << >> => Html.avg_processing_time = Text1(0, 0)
  /\ SummaryDone =>
       /\ Qualifying(Input) = << >> =>
            Summary.avg_economic_value = [whole |-> 0, hundredth |-> 0]
       /\ Timed(Input) = << >> =>
            Summary.avg_processing_time = [whole |-> 0, hundredth |-> 0]

\* a dashboard with a category without records and a category whose mean
\* counts a record without EconomicValue
C10_Witness ==
  /\ HtmlDone
  /\ \E c \in Categories : WithLabel(Input, FreqOrder[c]) = << >>
  /\ \E c \in Categories :
       /\ RatLt(Zero, Html.economic_chart.avg_values[c])
       /\ \E i \in 1..Len(Input) :
            /\ HasFrequency(Input[i])
            /\ Input[i]["RecommendedFrequency"] = FreqOrder[c]
            /\ "EconomicValue" \notin DOMAIN Input[i]

FourImages ==
  {"frequency_distribution.png", "economic_value_distribution.png",
   "processing_time.png", "summary.png"}

VisualizeSucceeded == script = "visualize" /\ pc = "exit" /\ status = 0

\* C11: every successful run of the visualization tool on an input with a
\* record of one of the five labels has created the output directory and
\* written exactly the four image files, also when no record has an
\* ExecutionTime.
C11_FourImagesWritten ==
  (VisualizeSucceeded /\ \E c \in Categories : WithLabel(Input, FreqOrder[c]) # << >>) =>
    fs.dir /\ fs.images = FourImages

\* C11 as the code has it: a successful run has created the directory and
\* written frequency_distribution.png and summary.png; it has written
\* economic_value_distribution.png exactly when some qualifying record
\* carries one of the five labels, and processing_time.png exactly when some
\* qualifying record has an ExecutionTime; it writes nothing else.
C11_ImagesWrittenWhenData ==
  VisualizeSucceeded =>
    /\ fs.dir
    /\ fs.images =
         {"frequency_distribution.png", "summary.png"}
           \cup (IF \E c \in Categories : WithLabel(Input, FreqOrder[c]) # << >>
                 THEN {"economic_value_distribution.png"} ELSE {})
           \cup (IF Timed(Input) # << >> THEN {"processing_time.png"} ELSE {})
    /\ DOMAIN report = fs.images

\* a successful run on labelled records none of which has an ExecutionTime:
\* three images
C11_Witness ==
  /\ VisualizeSucceeded
  /\ \E c \in Categories : WithLabel(Input, FreqOrder[c]) # << >>
  /\ Timed(Input) = << >>
  /\ fs.images = FourImages \ {"processing_time.png"}

\* the row the table shows for a record
RowOf(record) ==
  [goal |-> IF "Goal" \in DOMAIN record THEN record["Goal"] ELSE "",
   context |-> IF "Context" \in DOMAIN record THEN record["Context"] ELSE "",
   frequency |-> record["RecommendedFrequency"],
   economic_value |-> EconomicValueOf(record),
   success |-> IF Succeeded(record) THEN "check" ELSE "cross"]

\* C12: the sample-decisions table has min(10, number of qualifying records)
\* rows, and row i shows the goal, context, frequency, economic value and
\* success glyph of the i-th qualifying record in input order.
C12_SampleTableRows ==
  HtmlDone =>
    LET kept == Qualifying(Input)
        rows == Html.sample_decisions
    IN  /\ Len(rows) = IF Len(kept) < 10 THEN Len(kept) ELSE 10
        /\ \A i \in 1..Len(rows) : rows[i] = RowOf(kept[i])

\* a dashboard built from more than ten qualifying records, with a record
\* without frequency ahead of a shown one, and rows of both kinds
C12_Witness ==
  /\ HtmlDone
  /\ Len(Qualifying(Input)) > 10
  /\ Len(Html.sample_decisions) = 10
  /\ ~HasFrequency(Input[1])
  /\ \E i, j \in 1..10 :
       /\ Html.sample_decisions[i].goal = "g1"
       /\ Html.sample_decisions[j].goal = "g2"

\* the per-frequency mean processing times a finished chart shows
ChartTimes ==
  IF script = "dashboard" THEN Html.processing_time_chart.avg_times
  ELSE report["processing_time.png"].avg_times

ChartTimesDone ==
  IF script = "dashboard" THEN HtmlDone /\ Html.processing_time_chart.kind = "chart"
  ELSE "processing_time.png" \in DOMAIN report

\* the mean the claim prescribes for a label: over the qualifying records
\* with that label that carry an ExecutionTime, 0 when there are none
ExpectedMeanTime(label) ==
  LET timed == SelectSeq(WithLabel(Input, label), LAMBDA r : "ExecutionTime" \in DOMAIN r)
  IN  IF timed = << >> THEN Zero
      ELSE RatDivInt(SumRats([i \in DOMAIN timed |-> ExpectedMs(timed[i]["ExecutionTime"])]),
                     Len(timed))

AllTimesWellFormed ==
  \A i \in 1..Len(Input) :
    (HasFrequency(Input[i]) /\ "ExecutionTime" \in DOMAIN Input[i]) => WellTimed(Input[i])

\* C13: in both scripts' processing-time charts the mean shown for a
\* category is the mean processing time of the qualifying records of that
\* category that carry an (accepted) ExecutionTime, also when other
\* qualifying records have none.
C13_MeanTimePerFrequency ==
  (ChartTimesDone /\ AllTimesWellFormed) =>
    \A c \in Categories : ChartTimes[c] = ExpectedMeanTime(FreqOrder[c])

\* C13 restricted to inputs in which every qualifying record carries an
\* ExecutionTime: the chart shows the prescribed means.
C13_MeanTimeWhenAllTimed ==
  (ChartTimesDone /\ AllTimesWellFormed
     /\ \A i \in 1..Len(Input) : HasFrequency(Input[i]) => "ExecutionTime" \in DOMAIN Input[i]) =>
    \A c \in Categories : ChartTimes[c] = ExpectedMeanTime(FreqOrder[c])

\* the values of one field, with the default of the code's item.get, over
\* a sequence of records
Column(records, key, default) == [i \in DOMAIN records |-> Get(records[i], key, default)]

\* the first n elements of a column
Prefix(seq, n) == SubSeq(seq, 1, n)

\* the parallel sequences of the dashboard hold the first n qualifying
\* records seen so far, field by field
DashAligned(n) ==
  LET kept == Qualifying(Consumed)
  IN  /\ n <= Len(kept)
      /\ results.sk_frequencies = Prefix(Column(kept, "RecommendedFrequency", ""), n)
      /\ results.sk_economic_values = Prefix(Column(kept, "EconomicValue", 0), n)
      /\ results.goals = Prefix(Column(kept, "Goal", ""), n)
      /\ results.contexts = Prefix(Column(kept, "Context", ""), n)
      /\ results.timestamps = Prefix(Column(kept, "Timestamp", ""), n)
      /\ results.successful = Prefix(Column(kept, "WasSuccessful", TRUE), n)

VizAligned(n) ==
  LET kept == Qualifying(Consumed)
  IN  /\ n <= Len(kept)
      /\ results.sk_frequencies = Prefix(Column(kept, "RecommendedFrequency", ""), n)
      /\ results.sk_economic_values = Prefix(Column(kept, "EconomicValue", 0), n)

\* C14: after any prefix of the input has been processed, the parallel
\* sequences (six in the dashboard, two in the visualization script) have
\* one common length, the number of qualifying records among those
\* processed, index i of each holds the field of the i-th of them, and
\* sk_processing_times is no longer than sk_frequencies.  An iteration an
\* exception has left is not counted as processed unless it has stored its
\* record.
C14_ParallelSequencesAligned ==
  LET n == Len(results.sk_frequencies)
  IN  /\ exc = "none" => n = Len(Qualifying(Consumed))
      /\ exc # "none" => n \in {Len(Qualifying(Consumed)) - 1, Len(Qualifying(Consumed))}
      /\ IF script = "dashboard" THEN DashAligned(n) ELSE VizAligned(n)
      /\ Len(results.sk_processing_times) <= n

\* the dashboard inside analyze_data: a record without frequency passed
\* over and one record stored that has neither ExecutionTime nor Context
C14_Witness ==
  /\ script = "dashboard"
  /\ pc = "analyze"
  /\ Len(Qualifying(Consumed)) < idx
  /\ Len(results.goals) = 1
  /\ "Context" \notin DOMAIN Qualifying(Consumed)[1]
  /\ Len(results.sk_processing_times) < Len(results.sk_frequencies)

\* the pipeline step a position of main belongs to
Stage ==
  CASE pc = "main" -> 0
    [] pc = "load" -> 1
    [] pc = "analyze" -> 2
    [] pc = "render" -> 3
    [] pc \in {"write", "frequency", "economic", "processing", "summary"} -> 4
    [] pc = "exit" -> 5

\* something has been rendered or has reached the file system
SomeArtifact == fs # NoFiles \/ report # NoReport

\* what each step finds done when it runs, and what a failed run leaves
StepsInOrder ==
  /\ (Stage \in 2..4 \/ idx > 0) => Truthy(data)
  /\ (Stage \in 3..4 \/ SomeArtifact) =>
       Truthy(data) /\ idx = Len(data.items) /\ exc = "none" /\ status = 0
  /\ fs.html => script = "dashboard" /\ HtmlDone
  /\ fs.images # {} => script = "visualize" /\ fs.dir
  /\ fs.images = DOMAIN report \ {"html"}
  /\ (pc = "exit" /\ status = 1) => ~fs.html /\ ~fs.dir /\ ~SomeArtifact

\* C15: the steps run in the order Load, Analyze, Render, Write (main never
\* goes back to an earlier step, and a later step runs only when the
\* earlier ones have succeeded), no artifact exists before loading has
\* succeeded, and a run that ends with exit status 1 has neither opened the
\* HTML file nor created the output directory.
C15_LoadAnalyzeRenderWrite ==
  /\ []StepsInOrder
  /\ [][/\ Stage' >= Stage
        /\ Stage' \in {Stage, Stage + 1, 5}
        /\ (Stage' = Stage => Stage \in {2, 4})]_vars

\* the visualization script stopped by a missing input file: exit status
\* 1 after the load step, the output directory not created
C15_Witness ==
  /\ script = "visualize"
  /\ pc = "exit" /\ status = 1
  /\ argc >= 2 /\ file.state = "missing"
  /\ data = None
  /\ ~fs.dir
====
